---- MODULE Spec2Model ----
(***************************************************************************)
(* Simulador de Custo de Viagem (src/app.py).                              *)
(*                                                                         *)
(* The two calculators calcular_combustivel and calcular_custos_completos, *)
(* the two formatting helpers they call, and the Streamlit script that     *)
(* collects the widget values, calls one calculator when its button is     *)
(* pressed and renders the result panel.                                   *)
(*                                                                         *)
(* Numbers are exact rationals [n, d] in lowest terms with d > 0; Python   *)
(* text is a sequence of one-character strings.  The binary representation *)
(* error of Python's floats (about 1e-16 relative) is below the model's    *)
(* resolution; the rounding to two decimals done by the format             *)
(* specification ",.2f" is modelled digit by digit.                        *)
(***************************************************************************)
EXTENDS Integers, Sequences, FiniteSets, TLC

(***************************************************************************)
(* Bounds of the model.                                                    *)
(***************************************************************************)
MaxInt == 2

(***************************************************************************)
(* Rational arithmetic.                                                    *)
(***************************************************************************)
Abs(x) == IF x < 0 THEN 0 - x ELSE x

RECURSIVE GCD(_, _)
GCD(a, b) == IF b = 0 THEN a ELSE GCD(b, a % b)

Rat(n, d) ==
    LET g == GCD(Abs(n), Abs(d))
        s == IF d < 0 THEN 0 - 1 ELSE 1
    IN  [n |-> (s * n) \div g, d |-> (s * d) \div g]

Num(k) == [n |-> k, d |-> 1]

\* Sums over the least common denominator and products after cross
\* cancellation, which keep the intermediate integers small.
RAdd(a, b) ==
    LET g == GCD(a.d, b.d)
    IN  Rat(a.n * (b.d \div g) + b.n * (a.d \div g), (a.d \div g) * b.d)
RNeg(a) == [n |-> 0 - a.n, d |-> a.d]
RSub(a, b) == RAdd(a, RNeg(b))
RMul(a, b) ==
    LET g1 == GCD(Abs(a.n), b.d)
        g2 == GCD(Abs(b.n), a.d)
    IN  Rat((a.n \div g1) * (b.n \div g2), (a.d \div g2) * (b.d \div g1))
RInv(a) == IF a.n < 0 THEN [n |-> 0 - a.d, d |-> 0 - a.n] ELSE [n |-> a.d, d |-> a.n]
RDiv(a, b) == RMul(a, RInv(b))
RLeq(a, b) == a.n * b.d <= b.n * a.d
RAbs(a) == [n |-> Abs(a.n), d |-> a.d]
EhInteiro(a) == a.d = 1

(***************************************************************************)
(* Python text: str.replace, str.upper, str(int), float(str) and the       *)
(* format specifications ",.2f" and ".0f".                                 *)
(***************************************************************************)
DigitChars == <<"0", "1", "2", "3", "4", "5", "6", "7", "8", "9">>

RECURSIVE Digitos(_)
Digitos(k) ==
    IF k < 10 THEN <<DigitChars[k + 1]>>
    ELSE Digitos(k \div 10) \o <<DigitChars[(k % 10) + 1]>>

RECURSIVE Agrupar(_)
Agrupar(ds) ==
    IF Len(ds) <= 3 THEN ds
    ELSE Agrupar(SubSeq(ds, 1, Len(ds) - 3)) \o <<",">>
         \o SubSeq(ds, Len(ds) - 2, Len(ds))

\* Variant: the fraction is dropped instead of rounded.
RoundHalfEven_trunca(n, d) == n \div d

\* Round n/d (n >= 0, d > 0) to the nearest integer, ties to even: the
\* correctly rounded decimal conversion of the format specification.
RoundHalfEven(n, d) ==
    LET q == n \div d
        r == n % d
    IN  IF 2 * r < d THEN q
        ELSE IF 2 * r > d THEN q + 1
        ELSE IF q % 2 = 0 THEN q ELSE q + 1

\* f"{valor:,.2f}"
Format2f(valor) ==
    LET i == Abs(valor.n) \div valor.d
        q == RoundHalfEven((Abs(valor.n) % valor.d) * 100, valor.d)
        c == q % 100
    IN  (IF valor.n < 0 THEN <<"-">> ELSE <<>>)
        \o Agrupar(Digitos(i + (q \div 100)))
        \o <<".", DigitChars[(c \div 10) + 1], DigitChars[(c % 10) + 1]>>

\* f"{valor:.0f}"
Format0f(valor) ==
    (IF valor.n < 0 THEN <<"-">> ELSE <<>>)
    \o Digitos(RoundHalfEven(Abs(valor.n), valor.d))

\* str.replace(old, new) for a non-empty old: leftmost non-overlapping
\* occurrences.
RECURSIVE Replace(_, _, _)
Replace(s, old, new) ==
    IF Len(s) < Len(old) THEN s
    ELSE IF SubSeq(s, 1, Len(old)) = old
         THEN new \o Replace(SubSeq(s, Len(old) + 1, Len(s)), old, new)
         ELSE <<Head(s)>> \o Replace(Tail(s), old, new)

Minusculas == <<"a", "b", "c", "d", "e", "f", "g", "h", "i", "j", "k", "l", "m",
                "n", "o", "p", "q", "r", "s", "t", "u", "v", "w", "x", "y", "z">>
Maiusculas == <<"A", "B", "C", "D", "E", "F", "G", "H", "I", "J", "K", "L", "M",
                "N", "O", "P", "Q", "R", "S", "T", "U", "V", "W", "X", "Y", "Z">>

\* str.upper()
Upper(s) ==
    [i \in 1..Len(s) |->
        IF \E j \in 1..26 : Minusculas[j] = s[i]
        THEN Maiusculas[CHOOSE j \in 1..26 : Minusculas[j] = s[i]]
        ELSE s[i]]

\* The text an f-string gives for an integer value, f"{n}".
StrNum(v) ==
    (IF v.n < 0 THEN <<"-">> ELSE <<>>) \o Digitos(Abs(v.n))

DigitVal(c) == (CHOOSE j \in 1..10 : DigitChars[j] = c) - 1
EhDigito(c) == \E j \in 1..10 : DigitChars[j] = c

RECURSIVE ValorDigitos(_)
ValorDigitos(ds) ==
    IF ds = <<>> THEN 0
    ELSE 10 * ValorDigitos(SubSeq(ds, 1, Len(ds) - 1)) + DigitVal(ds[Len(ds)])

RECURSIVE Pot10(_)
Pot10(k) == IF k = 0 THEN 1 ELSE 10 * Pot10(k - 1)

\* The literals float() accepts among the texts the script hands it:
\* an optional sign, digits, and optionally a point followed by digits.
EhLiteralFloat(s) ==
    LET corpo == IF s # <<>> /\ Head(s) = "-" THEN Tail(s) ELSE s
        pontos == {i \in 1..Len(corpo) : corpo[i] = "."}
    IN  /\ corpo # <<>>
        /\ Cardinality(pontos) <= 1
        /\ \A i \in 1..Len(corpo) : corpo[i] = "." \/ EhDigito(corpo[i])
        /\ \E i \in 1..Len(corpo) : EhDigito(corpo[i])

\* float(s)
Float(s) ==
    LET neg == s # <<>> /\ Head(s) = "-"
        corpo == IF neg THEN Tail(s) ELSE s
        pontos == {i \in 1..Len(corpo) : corpo[i] = "."}
        p == IF pontos = {} THEN Len(corpo) + 1 ELSE CHOOSE i \in pontos : TRUE
        int == SubSeq(corpo, 1, p - 1)
        frac == SubSeq(corpo, p + 1, Len(corpo))
        mag == Rat(ValorDigitos(int \o frac), Pot10(Len(frac)))
    IN  IF neg THEN [n |-> 0 - mag.n, d |-> mag.d] ELSE mag

(***************************************************************************)
(* Funções auxiliares.                                                     *)
(***************************************************************************)
TrocaSeparadores(s) ==
    Replace(Replace(Replace(s, <<",">>, <<"X">>), <<".">>, <<",">>), <<"X">>, <<".">>)

formatar_moeda(valor) ==
    <<"R", "$", " ">> \o TrocaSeparadores(Format2f(valor))

formatar_numero(valor, sufixo) ==
    TrocaSeparadores(Format2f(valor)) \o sufixo

(***************************************************************************)
(* Python values other than numbers and text.                              *)
(***************************************************************************)
None == [tipo |-> "None"]
Indefinido == [tipo |-> "indefinido"]

\* Variant: the return value is not tested before the panel is rendered.
Truthy_sempre(v) == TRUE

\* Truth value of the calculators' return value in "if resultado:".
Truthy(v) == v # None

(***************************************************************************)
(* Função de Cálculo — Combustível.                                        *)
(***************************************************************************)
\* Variant: the price is left out of the validation.
calcular_combustivel_semPreco(distancia, consumo, preco, viajantes) ==
    IF distancia.n <= 0 \/ consumo.n <= 0 \/ viajantes.n <= 0
    THEN None
    ELSE
      LET litros_necessarios == RDiv(distancia, consumo)
          custo_total == RMul(litros_necessarios, preco)
          custo_por_pessoa == RDiv(custo_total, viajantes)
      IN  [tipo |-> "dict",
           distancia_total |-> distancia,
           litros_necessarios |-> formatar_numero(litros_necessarios, <<" ", "L">>),
           preco_combustivel |-> formatar_moeda(preco),
           custo_total_combustivel |-> formatar_moeda(custo_total),
           custo_por_pessoa_combustivel |-> formatar_moeda(custo_por_pessoa),
           num_viajantes |-> viajantes]

\* Variant: the litres are distance times consumption.
calcular_combustivel_litros(distancia, consumo, preco, viajantes) ==
    IF distancia.n <= 0 \/ consumo.n <= 0 \/ preco.n <= 0 \/ viajantes.n <= 0
    THEN None
    ELSE
      LET litros_necessarios == RMul(distancia, consumo)
          custo_total == RMul(litros_necessarios, preco)
          custo_por_pessoa == RDiv(custo_total, viajantes)
      IN  [tipo |-> "dict",
           distancia_total |-> distancia,
           litros_necessarios |-> formatar_numero(litros_necessarios, <<" ", "L">>),
           preco_combustivel |-> formatar_moeda(preco),
           custo_total_combustivel |-> formatar_moeda(custo_total),
           custo_por_pessoa_combustivel |-> formatar_moeda(custo_por_pessoa),
           num_viajantes |-> viajantes]

\* Variant: the total cost is not divided among the travelers.
calcular_combustivel_semDivisao(distancia, consumo, preco, viajantes) ==
    IF distancia.n <= 0 \/ consumo.n <= 0 \/ preco.n <= 0 \/ viajantes.n <= 0
    THEN None
    ELSE
      LET litros_necessarios == RDiv(distancia, consumo)
          custo_total == RMul(litros_necessarios, preco)
          custo_por_pessoa == custo_total
      IN  [tipo |-> "dict",
           distancia_total |-> distancia,
           litros_necessarios |-> formatar_numero(litros_necessarios, <<" ", "L">>),
           preco_combustivel |-> formatar_moeda(preco),
           custo_total_combustivel |-> formatar_moeda(custo_total),
           custo_por_pessoa_combustivel |-> formatar_moeda(custo_por_pessoa),
           num_viajantes |-> viajantes]

calcular_combustivel(distancia, consumo, preco, viajantes) ==
    IF distancia.n <= 0 \/ consumo.n <= 0 \/ preco.n <= 0 \/ viajantes.n <= 0
    THEN None
    ELSE
      LET litros_necessarios == RDiv(distancia, consumo)
          custo_total == RMul(litros_necessarios, preco)
          custo_por_pessoa == RDiv(custo_total, viajantes)
      IN  [tipo |-> "dict",
           distancia_total |-> distancia,
           litros_necessarios |-> formatar_numero(litros_necessarios, <<" ", "L">>),
           preco_combustivel |-> formatar_moeda(preco),
           custo_total_combustivel |-> formatar_moeda(custo_total),
           custo_por_pessoa_combustivel |-> formatar_moeda(custo_por_pessoa),
           num_viajantes |-> viajantes]

(***************************************************************************)
(* Função de Cálculo — Viagem Completa.                                    *)
(***************************************************************************)
\* Variant: the reserve percentage is validated against 0..100.
calcular_custos_completos_faixa(dest, dias, viajantes, acomodacao_noite, transporte_total, alimentacao_dia_pessoa, atividades_total, percentual) ==
    IF dias.n <= 0 \/ viajantes.n <= 0
       \/ percentual.n < 0 \/ ~RLeq(percentual, Num(100))
    THEN None
    ELSE
      LET total_acomodacao == RMul(acomodacao_noite, dias)
          total_alimentacao == RMul(RMul(alimentacao_dia_pessoa, dias), viajantes)
          subtotal == RAdd(RAdd(RAdd(total_acomodacao, transporte_total),
                                total_alimentacao), atividades_total)
          reserva == RMul(subtotal, RDiv(percentual, Num(100)))
          custo_total_final == RAdd(subtotal, reserva)
      IN  [tipo |-> "dict",
           destino |-> Upper(dest),
           num_dias |-> dias,
           num_viajantes |-> viajantes,
           total_acomodacao |-> formatar_moeda(total_acomodacao),
           total_alimentacao |-> formatar_moeda(total_alimentacao),
           custo_transporte_total |-> formatar_moeda(transporte_total),
           custo_atividades_total |-> formatar_moeda(atividades_total),
           subtotal |-> formatar_moeda(subtotal),
           percentual_reserva |-> Format0f(percentual) \o <<"%">>,
           reserva |-> formatar_moeda(reserva),
           custo_total_final |-> formatar_moeda(custo_total_final),
           custo_por_pessoa |-> formatar_moeda(RDiv(custo_total_final, viajantes)),
           custo_por_dia_pessoa |->
               formatar_moeda(RDiv(RDiv(custo_total_final, viajantes), dias))]

\* Variant: the food total is not multiplied by the travelers.
calcular_custos_completos_alimentacao(dest, dias, viajantes, acomodacao_noite, transporte_total, alimentacao_dia_pessoa, atividades_total, percentual) ==
    IF dias.n <= 0 \/ viajantes.n <= 0
    THEN None
    ELSE
      LET total_acomodacao == RMul(acomodacao_noite, dias)
          total_alimentacao == RMul(alimentacao_dia_pessoa, dias)
          subtotal == RAdd(RAdd(RAdd(total_acomodacao, transporte_total),
                                total_alimentacao), atividades_total)
          reserva == RMul(subtotal, RDiv(percentual, Num(100)))
          custo_total_final == RAdd(subtotal, reserva)
      IN  [tipo |-> "dict",
           destino |-> Upper(dest),
           num_dias |-> dias,
           num_viajantes |-> viajantes,
           total_acomodacao |-> formatar_moeda(total_acomodacao),
           total_alimentacao |-> formatar_moeda(total_alimentacao),
           custo_transporte_total |-> formatar_moeda(transporte_total),
           custo_atividades_total |-> formatar_moeda(atividades_total),
           subtotal |-> formatar_moeda(subtotal),
           percentual_reserva |-> Format0f(percentual) \o <<"%">>,
           reserva |-> formatar_moeda(reserva),
           custo_total_final |-> formatar_moeda(custo_total_final),
           custo_por_pessoa |-> formatar_moeda(RDiv(custo_total_final, viajantes)),
           custo_por_dia_pessoa |->
               formatar_moeda(RDiv(RDiv(custo_total_final, viajantes), dias))]

\* Variant: the reserve percentage is applied as a fraction.
calcular_custos_completos_reserva(dest, dias, viajantes, acomodacao_noite, transporte_total, alimentacao_dia_pessoa, atividades_total, percentual) ==
    IF dias.n <= 0 \/ viajantes.n <= 0
    THEN None
    ELSE
      LET total_acomodacao == RMul(acomodacao_noite, dias)
          total_alimentacao == RMul(RMul(alimentacao_dia_pessoa, dias), viajantes)
          subtotal == RAdd(RAdd(RAdd(total_acomodacao, transporte_total),
                                total_alimentacao), atividades_total)
          reserva == RMul(subtotal, percentual)
          custo_total_final == RAdd(subtotal, reserva)
      IN  [tipo |-> "dict",
           destino |-> Upper(dest),
           num_dias |-> dias,
           num_viajantes |-> viajantes,
           total_acomodacao |-> formatar_moeda(total_acomodacao),
           total_alimentacao |-> formatar_moeda(total_alimentacao),
           custo_transporte_total |-> formatar_moeda(transporte_total),
           custo_atividades_total |-> formatar_moeda(atividades_total),
           subtotal |-> formatar_moeda(subtotal),
           percentual_reserva |-> Format0f(percentual) \o <<"%">>,
           reserva |-> formatar_moeda(reserva),
           custo_total_final |-> formatar_moeda(custo_total_final),
           custo_por_pessoa |-> formatar_moeda(RDiv(custo_total_final, viajantes)),
           custo_por_dia_pessoa |->
               formatar_moeda(RDiv(RDiv(custo_total_final, viajantes), dias))]

calcular_custos_completos(dest, dias, viajantes, acomodacao_noite, transporte_total, alimentacao_dia_pessoa, atividades_total, percentual) ==
    IF dias.n <= 0 \/ viajantes.n <= 0
    THEN None
    ELSE
      LET total_acomodacao == RMul(acomodacao_noite, dias)
          total_alimentacao == RMul(RMul(alimentacao_dia_pessoa, dias), viajantes)
          subtotal == RAdd(RAdd(RAdd(total_acomodacao, transporte_total),
                                total_alimentacao), atividades_total)
          reserva == RMul(subtotal, RDiv(percentual, Num(100)))
          custo_total_final == RAdd(subtotal, reserva)
      IN  [tipo |-> "dict",
           destino |-> Upper(dest),
           num_dias |-> dias,
           num_viajantes |-> viajantes,
           total_acomodacao |-> formatar_moeda(total_acomodacao),
           total_alimentacao |-> formatar_moeda(total_alimentacao),
           custo_transporte_total |-> formatar_moeda(transporte_total),
           custo_atividades_total |-> formatar_moeda(atividades_total),
           subtotal |-> formatar_moeda(subtotal),
           percentual_reserva |-> Format0f(percentual) \o <<"%">>,
           reserva |-> formatar_moeda(reserva),
           custo_total_final |-> formatar_moeda(custo_total_final),
           custo_por_pessoa |-> formatar_moeda(RDiv(custo_total_final, viajantes)),
           custo_por_dia_pessoa |->
               formatar_moeda(RDiv(RDiv(custo_total_final, viajantes), dias))]

(***************************************************************************)
(* Widgets.  A number_input whose min_value and value are Python ints      *)
(* yields ints; one whose min_value is a float yields floats.  Neither     *)
(* yields a value below min_value.  The slider yields the integers of its  *)
(* range.                                                                  *)
(***************************************************************************)
\* Variant: the widget accepts one unit below its min_value.
NumberInput_abaixo(universo, min_value, inteiro) ==
    {v \in universo : RLeq(RSub(min_value, Num(1)), v) /\ (inteiro => EhInteiro(v))}

NumberInput(universo, min_value, inteiro) ==
    {v \in universo : RLeq(min_value, v) /\ (inteiro => EhInteiro(v))}

Slider(universo, min_value, max_value) ==
    {v \in universo : RLeq(min_value, v) /\ RLeq(v, max_value) /\ EhInteiro(v)}

\* The values a caller may hand to the calculators, the ones the widgets
\* reject included.
Inteiros == {Num(k) : k \in (0 - MaxInt)..MaxInt}
UDestino == {<<"P", "a", "r", "i", "s">>, <<"R", "i", "o", " ", "2">>}
UDias == Inteiros \cup {Num(7)}
UViajantes == Inteiros
UAcomodacao == {Num(0 - 1), Num(0), Rat(1, 8), Num(300)}
UTransporte == {Num(0), Rat(1001, 100), Num(2500)}
UAlimentacao == {Num(0), Rat(1, 3), Num(80)}
UAtividades == {Num(0 - 1), Num(0), Num(500)}
UPercentual == {Num(0 - 10), Num(0), Num(10), Rat(25, 2), Num(100), Num(150)}
UDistancia == Inteiros \cup {Num(500)}
UConsumo == Inteiros \cup {Num(12)}
UPreco == {Num(0 - 1), Num(0), Rat(1, 20), Rat(1, 10), Rat(599, 100)}

\* The values each widget of the two forms can yield.
WDestino == UDestino
WNumDias == NumberInput(UDias, Num(1), TRUE)
WNumViajantes == NumberInput(UViajantes, Num(1), TRUE)
WAcomodacao == NumberInput(UAcomodacao, Num(0), FALSE)
WTransporte == NumberInput(UTransporte, Num(0), FALSE)
WAlimentacao == NumberInput(UAlimentacao, Num(0), FALSE)
WAtividades == NumberInput(UAtividades, Num(0), FALSE)
WPercentual == Slider(UPercentual, Num(0), Num(100))
WDistancia == NumberInput(UDistancia, Num(1), TRUE)
WConsumo == NumberInput(UConsumo, Num(1), TRUE)
WPreco == NumberInput(UPreco, Rat(1, 10), FALSE)

SimViagem == "Simulação Completa da Viagem"
SimCombustivel == "Simulação de Custo de Combustível"
BotaoViagem == "Calcular Custo Total"
BotaoCombustivel == "Calcular Combustível"

(***************************************************************************)
(* State of one run of the script: the sidebar choice, the widget values,  *)
(* the button that triggered the run ("" when none did), the calculator's  *)
(* return value, the elements rendered below the button and the exception  *)
(* that ended the run ("" when none did).                                  *)
(***************************************************************************)
VARIABLES escolha, destino, num_dias, num_viajantes, custo_acomodacao_noite,
          custo_transporte_total, custo_alimentacao_dia_pessoa,
          custo_atividades_total, percentual_reserva, distancia_total,
          consumo_km_litro, preco_combustivel, botao, resultado, painel,
          excecao

viagem == <<destino, num_dias, custo_acomodacao_noite, custo_transporte_total,
            custo_alimentacao_dia_pessoa, custo_atividades_total,
            percentual_reserva>>
combustivel == <<distancia_total, consumo_km_litro, preco_combustivel>>
execucao == <<botao, resultado, painel, excecao>>
vars == <<escolha, viagem, num_viajantes, combustivel, execucao>>

\* The widgets' value= arguments.
ViagemPadrao ==
    /\ destino = <<"P", "a", "r", "i", "s">>
    /\ num_dias = Num(7)
    /\ custo_acomodacao_noite = Num(300)
    /\ custo_transporte_total = Num(2500)
    /\ custo_alimentacao_dia_pessoa = Num(80)
    /\ custo_atividades_total = Num(500)
    /\ percentual_reserva = Num(10)

ViajantesPadrao == Num(2)

CombustivelPadrao ==
    /\ distancia_total = Num(500)
    /\ consumo_km_litro = Num(12)
    /\ preco_combustivel = Rat(599, 100)

\* A run in which no button is True: nothing is computed or rendered.
SemExecucao ==
    /\ botao = ""
    /\ resultado = Indefinido
    /\ painel = <<>>
    /\ excecao = ""

\* The same three, of the state a rerun of the script produces.
RecriarViagem ==
    /\ destino' = <<"P", "a", "r", "i", "s">>
    /\ num_dias' = Num(7)
    /\ custo_acomodacao_noite' = Num(300)
    /\ custo_transporte_total' = Num(2500)
    /\ custo_alimentacao_dia_pessoa' = Num(80)
    /\ custo_atividades_total' = Num(500)
    /\ percentual_reserva' = Num(10)

RecriarCombustivel ==
    /\ distancia_total' = Num(500)
    /\ consumo_km_litro' = Num(12)
    /\ preco_combustivel' = Rat(599, 100)

Reexecutar ==
    /\ botao' = ""
    /\ resultado' = Indefinido
    /\ painel' = <<>>
    /\ excecao' = ""

(***************************************************************************)
(* The result panels.                                                      *)
(***************************************************************************)
\* float(s.replace("R$ ", "").replace(".", "").replace(",", "."))
TextoNumerico(s) ==
    Replace(Replace(Replace(s, <<"R", "$", " ">>, <<>>), <<".">>, <<>>),
            <<",">>, <<".">>)

Categorias(res) ==
    << <<"Acomodação (", StrNum(res.num_dias), " noites)">>,
       <<"Transporte">>,
       <<"Alimentação (", StrNum(res.num_viajantes), " pessoas)">>,
       <<"Atividades">>,
       <<"Reserva (", res.percentual_reserva, ")">> >>

CustosTabela(res) ==
    <<res.total_acomodacao, res.custo_transporte_total, res.total_alimentacao,
      res.custo_atividades_total, res.reserva>>

\* Reading a key of None raises TypeError at the first element; a text
\* float() rejects raises ValueError after the table is shown.
PainelViagem(res) ==
    IF res = None THEN <<>>
    ELSE
      LET ate_tabela ==
            << [elemento |-> "success",
                corpo |-> <<"Orçamento de viagem para **", res.destino,
                            "** gerado com sucesso!">>],
               [elemento |-> "subheader", corpo |-> "Resumo Geral"],
               [elemento |-> "metric", rotulo |-> "Custo Total da Viagem",
                corpo |-> res.custo_total_final],
               [elemento |-> "metric", rotulo |-> "Custo por Pessoa",
                corpo |-> res.custo_por_pessoa],
               [elemento |-> "markdown", corpo |-> "---"],
               [elemento |-> "subheader", corpo |-> "Detalhamento dos Custos"],
               [elemento |-> "table", categoria |-> Categorias(res),
                custo |-> CustosTabela(res)] >>
          textos == [i \in 1..5 |-> TextoNumerico(CustosTabela(res)[i])]
      IN  IF \E i \in 1..5 : ~EhLiteralFloat(textos[i]) THEN ate_tabela
          ELSE ate_tabela \o
            << [elemento |-> "altair_chart", categoria |-> Categorias(res),
                custo |-> [i \in 1..5 |-> Float(textos[i])]],
               [elemento |-> "info",
                corpo |-> <<"Custo por dia por pessoa: **",
                            res.custo_por_dia_pessoa, "**">>] >>

ExcecaoViagem(res) ==
    IF res = None THEN "TypeError"
    ELSE IF \E i \in 1..5 : ~EhLiteralFloat(TextoNumerico(CustosTabela(res)[i]))
         THEN "ValueError"
         ELSE ""

PainelCombustivel(res) ==
    IF res = None THEN <<>>
    ELSE
      << [elemento |-> "success", corpo |-> "Cálculo realizado com sucesso!"],
         [elemento |-> "metric", rotulo |-> "Custo Total",
          corpo |-> res.custo_total_combustivel],
         [elemento |-> "metric", rotulo |-> "Custo por Pessoa",
          corpo |-> res.custo_por_pessoa_combustivel],
         [elemento |-> "expander", rotulo |-> "Detalhamento completo",
          corpo |-> << <<"Litros necessários: **", res.litros_necessarios, "**">>,
                       <<"Preço por litro: **", res.preco_combustivel, "**">>,
                       <<"Total de viajantes: **", StrNum(res.num_viajantes),
                         "**">> >>] >>

ExcecaoCombustivel(res) == IF res = None THEN "TypeError" ELSE ""

(***************************************************************************)
(* The script.  Every interaction with a widget reruns it; a button is     *)
(* True only in the run its click triggers; a widget that a run does not   *)
(* create is created with its value= argument the next time it is shown.   *)
(***************************************************************************)
Init ==
    /\ escolha = SimViagem
    /\ ViagemPadrao
    /\ num_viajantes = ViajantesPadrao
    /\ CombustivelPadrao
    /\ SemExecucao

Escolher ==
    /\ escolha' = IF escolha = SimViagem THEN SimCombustivel ELSE SimViagem
    /\ RecriarViagem
    /\ num_viajantes' = ViajantesPadrao
    /\ RecriarCombustivel
    /\ Reexecutar

Alterar(nesta, v, atual, valores) ==
    /\ escolha = nesta
    /\ v \in valores
    /\ v # atual
    /\ escolha' = escolha
    /\ Reexecutar

AlterarDestino ==
    \E v \in UDestino :
        /\ Alterar(SimViagem, v, destino, WDestino)
        /\ destino' = v
        /\ UNCHANGED <<num_dias, num_viajantes, custo_acomodacao_noite,
                       custo_transporte_total, custo_alimentacao_dia_pessoa,
                       custo_atividades_total, percentual_reserva, combustivel>>

AlterarNumDias ==
    \E v \in UDias :
        /\ Alterar(SimViagem, v, num_dias, WNumDias)
        /\ num_dias' = v
        /\ UNCHANGED <<destino, num_viajantes, custo_acomodacao_noite,
                       custo_transporte_total, custo_alimentacao_dia_pessoa,
                       custo_atividades_total, percentual_reserva, combustivel>>

AlterarNumViajantes ==
    \E v \in UViajantes :
        /\ v \in WNumViajantes
        /\ v # num_viajantes
        /\ num_viajantes' = v
        /\ escolha' = escolha
        /\ Reexecutar
        /\ UNCHANGED <<viagem, combustivel>>

AlterarAcomodacao ==
    \E v \in UAcomodacao :
        /\ Alterar(SimViagem, v, custo_acomodacao_noite, WAcomodacao)
        /\ custo_acomodacao_noite' = v
        /\ UNCHANGED <<destino, num_dias, num_viajantes,
                       custo_transporte_total, custo_alimentacao_dia_pessoa,
                       custo_atividades_total, percentual_reserva, combustivel>>

AlterarTransporte ==
    \E v \in UTransporte :
        /\ Alterar(SimViagem, v, custo_transporte_total, WTransporte)
        /\ custo_transporte_total' = v
        /\ UNCHANGED <<destino, num_dias, num_viajantes,
                       custo_acomodacao_noite, custo_alimentacao_dia_pessoa,
                       custo_atividades_total, percentual_reserva, combustivel>>

AlterarAlimentacao ==
    \E v \in UAlimentacao :
        /\ Alterar(SimViagem, v, custo_alimentacao_dia_pessoa, WAlimentacao)
        /\ custo_alimentacao_dia_pessoa' = v
        /\ UNCHANGED <<destino, num_dias, num_viajantes,
                       custo_acomodacao_noite, custo_transporte_total,
                       custo_atividades_total, percentual_reserva, combustivel>>

AlterarAtividades ==
    \E v \in UAtividades :
        /\ Alterar(SimViagem, v, custo_atividades_total, WAtividades)
        /\ custo_atividades_total' = v
        /\ UNCHANGED <<destino, num_dias, num_viajantes,
                       custo_acomodacao_noite, custo_transporte_total,
                       custo_alimentacao_dia_pessoa, percentual_reserva,
                       combustivel>>

AlterarPercentual ==
    \E v \in UPercentual :
        /\ Alterar(SimViagem, v, percentual_reserva, WPercentual)
        /\ percentual_reserva' = v
        /\ UNCHANGED <<destino, num_dias, num_viajantes,
                       custo_acomodacao_noite, custo_transporte_total,
                       custo_alimentacao_dia_pessoa, custo_atividades_total,
                       combustivel>>

AlterarDistancia ==
    \E v \in UDistancia :
        /\ Alterar(SimCombustivel, v, distancia_total, WDistancia)
        /\ distancia_total' = v
        /\ UNCHANGED <<viagem, num_viajantes, consumo_km_litro,
                       preco_combustivel>>

AlterarConsumo ==
    \E v \in UConsumo :
        /\ Alterar(SimCombustivel, v, consumo_km_litro, WConsumo)
        /\ consumo_km_litro' = v
        /\ UNCHANGED <<viagem, num_viajantes, distancia_total,
                       preco_combustivel>>

AlterarPreco ==
    \E v \in UPreco :
        /\ Alterar(SimCombustivel, v, preco_combustivel, WPreco)
        /\ preco_combustivel' = v
        /\ UNCHANGED <<viagem, num_viajantes, distancia_total,
                       consumo_km_litro>>

\* if st.button("Calcular Custo Total"): ...
CalcularCustoTotal ==
    /\ escolha = SimViagem
    /\ botao # BotaoViagem
    /\ LET res == calcular_custos_completos(
                      destino, num_dias, num_viajantes, custo_acomodacao_noite,
                      custo_transporte_total, custo_alimentacao_dia_pessoa,
                      custo_atividades_total, percentual_reserva)
       IN  /\ resultado' = res
           /\ IF Truthy(res)
              THEN painel' = PainelViagem(res) /\ excecao' = ExcecaoViagem(res)
              ELSE painel' = <<>> /\ excecao' = ""
    /\ botao' = BotaoViagem
    /\ UNCHANGED <<escolha, viagem, num_viajantes, combustivel>>

\* if st.button("Calcular Combustível"): ...
CalcularCombustivel ==
    /\ escolha = SimCombustivel
    /\ botao # BotaoCombustivel
    /\ LET res == calcular_combustivel(distancia_total, consumo_km_litro,
                                       preco_combustivel, num_viajantes)
       IN  /\ resultado' = res
           /\ IF Truthy(res)
              THEN /\ painel' = PainelCombustivel(res)
                   /\ excecao' = ExcecaoCombustivel(res)
              ELSE painel' = <<>> /\ excecao' = ""
    /\ botao' = BotaoCombustivel
    /\ UNCHANGED <<escolha, viagem, num_viajantes, combustivel>>

Next ==
    \/ Escolher
    \/ AlterarDestino
    \/ AlterarNumDias
    \/ AlterarNumViajantes
    \/ AlterarAcomodacao
    \/ AlterarTransporte
    \/ AlterarAlimentacao
    \/ AlterarAtividades
    \/ AlterarPercentual
    \/ AlterarDistancia
    \/ AlterarConsumo
    \/ AlterarPreco
    \/ CalcularCustoTotal
    \/ CalcularCombustivel

Spec == Init /\ [][Next]_vars

(***************************************************************************)
(* The calculators under any caller: the button handlers run on argument   *)
(* values the widgets' limits do not constrain.                            *)
(***************************************************************************)
InitLivre ==
    /\ escolha \in {SimViagem, SimCombustivel}
    /\ num_viajantes \in UViajantes
    /\ IF escolha = SimViagem
       THEN /\ destino \in UDestino
            /\ num_dias \in UDias
            /\ custo_acomodacao_noite \in UAcomodacao
            /\ custo_transporte_total \in UTransporte
            /\ custo_alimentacao_dia_pessoa \in UAlimentacao
            /\ custo_atividades_total \in UAtividades
            /\ percentual_reserva \in UPercentual
            /\ CombustivelPadrao
       ELSE /\ ViagemPadrao
            /\ distancia_total \in UDistancia
            /\ consumo_km_litro \in UConsumo
            /\ preco_combustivel \in UPreco
    /\ SemExecucao

NextLivre ==
    \/ CalcularCustoTotal
    \/ CalcularCombustivel

SpecLivre == InitLivre /\ [][NextLivre]_vars

(***************************************************************************)
(* Vocabulary of the properties.                                           *)
(***************************************************************************)
FezViagem == botao = BotaoViagem
FezCombustivel == botao = BotaoCombustivel
Devolveu == resultado # None /\ resultado # Indefinido

\* The number a returned text denotes.
ValorMoeda(s) == Float(TextoNumerico(s))
ValorNumero(s) == Float(TextoNumerico(SubSeq(s, 1, Len(s) - 2)))

MeioCentavo == Rat(1, 200)
Perto(v, exato, tol) == RLeq(RAbs(RSub(v, exato)), tol)

\* A text with exactly two digits after the decimal comma.
DuasCasas(s) ==
    /\ Len(s) >= 4
    /\ s[Len(s) - 2] = ","
    /\ EhDigito(s[Len(s) - 1])
    /\ EhDigito(s[Len(s)])
    /\ \A i \in 1..(Len(s) - 3) : s[i] # ","

\* The values of the formulas of the data model, on the current inputs.
LitrosExato == RDiv(distancia_total, consumo_km_litro)
CustoCombustivelExato == RMul(LitrosExato, preco_combustivel)
CombustivelPorPessoaExato == RDiv(CustoCombustivelExato, num_viajantes)

AcomodacaoExato == RMul(custo_acomodacao_noite, num_dias)
AlimentacaoExato == RMul(RMul(custo_alimentacao_dia_pessoa, num_dias), num_viajantes)
SubtotalExato ==
    RAdd(RAdd(AcomodacaoExato, custo_transporte_total),
         RAdd(AlimentacaoExato, custo_atividades_total))
ReservaExato == RDiv(RMul(SubtotalExato, percentual_reserva), Num(100))
TotalExato == RAdd(SubtotalExato, ReservaExato)
PorPessoaExato == RDiv(TotalExato, num_viajantes)
PorDiaPessoaExato == RDiv(PorPessoaExato, num_dias)

CustosNaoNegativos ==
    /\ custo_acomodacao_noite.n >= 0
    /\ custo_transporte_total.n >= 0
    /\ custo_alimentacao_dia_pessoa.n >= 0
    /\ custo_atividades_total.n >= 0

Texto(moeda) == <<"R", "$", " ">> \o moeda

(***************************************************************************)
(* C1.  calcular_combustivel returns None exactly when at least one of     *)
(* its four arguments is <= 0, and a result record when all four are > 0;  *)
(* a traveler count of 0 gives None.                                       *)
(***************************************************************************)
C1_ValidacaoCombustivel ==
    FezCombustivel =>
        /\ (resultado = None) <=>
              (\/ distancia_total.n <= 0
               \/ consumo_km_litro.n <= 0
               \/ preco_combustivel.n <= 0
               \/ num_viajantes.n <= 0)
        /\ resultado # None => resultado.tipo = "dict"
        /\ num_viajantes.n = 0 => resultado = None

C1_Witness ==
    /\ FezCombustivel
    /\ num_viajantes = Num(0)
    /\ distancia_total.n > 0 /\ consumo_km_litro.n > 0 /\ preco_combustivel.n > 0
    /\ resultado = None

(***************************************************************************)
(* C2.  calcular_custos_completos returns None exactly when num_dias <= 0  *)
(* or num_viajantes <= 0; otherwise it returns a result whatever the cost  *)
(* fields and the reserve percentage are, negative costs and percentages   *)
(* outside 0..100 being computed as given.                                 *)
(***************************************************************************)
C2_ValidacaoViagem ==
    FezViagem =>
        /\ (resultado = None) <=> (num_dias.n <= 0 \/ num_viajantes.n <= 0)
        /\ resultado # None =>
              /\ resultado.tipo = "dict"
              /\ Perto(ValorMoeda(resultado.subtotal), SubtotalExato, MeioCentavo)
              /\ Perto(ValorMoeda(resultado.reserva), ReservaExato, MeioCentavo)

C2_Witness ==
    /\ FezViagem
    /\ custo_acomodacao_noite.n < 0
    /\ percentual_reserva = Num(150)
    /\ Devolveu
    /\ ValorMoeda(resultado.reserva).n < 0

(***************************************************************************)
(* C3 as stated.  For positive arguments the returned litros, total cost   *)
(* and cost per traveler are exactly distance / economy, litros * price    *)
(* and total / travelers, so litros * economy = distance and               *)
(* cost per traveler * travelers = total cost.                             *)
(***************************************************************************)
C3_Original ==
    (FezCombustivel /\ Devolveu) =>
        LET litros == ValorNumero(resultado.litros_necessarios)
            total == ValorMoeda(resultado.custo_total_combustivel)
            pessoa == ValorMoeda(resultado.custo_por_pessoa_combustivel)
        IN  /\ litros = LitrosExato
            /\ total = RMul(litros, preco_combustivel)
            /\ pessoa = RDiv(total, num_viajantes)
            /\ RMul(litros, consumo_km_litro) = distancia_total
            /\ RMul(pessoa, num_viajantes) = total

(***************************************************************************)
(* C3 as amended.  For positive arguments each returned amount is the      *)
(* value of its formula (distance / economy, that times price, that over   *)
(* travelers, each computed from the unrounded values) rounded to two      *)
(* decimals, so it is within 0.005 of it; litros * economy is within       *)
(* 0.005 * economy of the distance and cost per traveler * travelers       *)
(* within 0.005 * (travelers + 1) of the returned total cost.              *)
(***************************************************************************)
C3_FormulasArredondadas ==
    (FezCombustivel /\ Devolveu) =>
        LET litros == ValorNumero(resultado.litros_necessarios)
            total == ValorMoeda(resultado.custo_total_combustivel)
            pessoa == ValorMoeda(resultado.custo_por_pessoa_combustivel)
        IN  /\ Perto(litros, LitrosExato, MeioCentavo)
            /\ Perto(total, CustoCombustivelExato, MeioCentavo)
            /\ Perto(pessoa, CombustivelPorPessoaExato, MeioCentavo)
            /\ Perto(RMul(litros, consumo_km_litro), distancia_total,
                     RMul(MeioCentavo, consumo_km_litro))
            /\ Perto(RMul(pessoa, num_viajantes), total,
                     RMul(MeioCentavo, RAdd(num_viajantes, Num(1))))

C3_Witness ==
    /\ FezCombustivel
    /\ Devolveu
    /\ num_viajantes.n > 1
    /\ ValorNumero(resultado.litros_necessarios) # LitrosExato
    /\ ValorMoeda(resultado.custo_por_pessoa_combustivel) # CombustivelPorPessoaExato

(***************************************************************************)
(* C4 as stated.  For positive days and travelers and non-negative costs   *)
(* the returned amounts satisfy the seven equations of the data model      *)
(* exactly.                                                                *)
(***************************************************************************)
C4_Original ==
    (FezViagem /\ Devolveu /\ CustosNaoNegativos) =>
        LET acomodacao == ValorMoeda(resultado.total_acomodacao)
            alimentacao == ValorMoeda(resultado.total_alimentacao)
            transporte == ValorMoeda(resultado.custo_transporte_total)
            atividades == ValorMoeda(resultado.custo_atividades_total)
            subtotal == ValorMoeda(resultado.subtotal)
            reserva == ValorMoeda(resultado.reserva)
            total == ValorMoeda(resultado.custo_total_final)
            pessoa == ValorMoeda(resultado.custo_por_pessoa)
            dia == ValorMoeda(resultado.custo_por_dia_pessoa)
        IN  /\ acomodacao = AcomodacaoExato
            /\ alimentacao = AlimentacaoExato
            /\ subtotal = RAdd(RAdd(acomodacao, transporte),
                               RAdd(alimentacao, atividades))
            /\ reserva = RDiv(RMul(subtotal, percentual_reserva), Num(100))
            /\ total = RAdd(subtotal, reserva)
            /\ pessoa = RDiv(total, num_viajantes)
            /\ dia = RDiv(pessoa, num_dias)

(***************************************************************************)
(* C4 as amended.  For positive days and travelers and non-negative costs  *)
(* each returned amount is the value of its equation of the data model,    *)
(* computed from the unrounded inputs and intermediate values, rounded to  *)
(* two decimals: it is within 0.005 of that value.                         *)
(***************************************************************************)
C4_FormulasArredondadas ==
    (FezViagem /\ Devolveu /\ CustosNaoNegativos) =>
        /\ Perto(ValorMoeda(resultado.total_acomodacao), AcomodacaoExato, MeioCentavo)
        /\ Perto(ValorMoeda(resultado.total_alimentacao), AlimentacaoExato, MeioCentavo)
        /\ Perto(ValorMoeda(resultado.subtotal), SubtotalExato, MeioCentavo)
        /\ Perto(ValorMoeda(resultado.reserva), ReservaExato, MeioCentavo)
        /\ Perto(ValorMoeda(resultado.custo_total_final), TotalExato, MeioCentavo)
        /\ Perto(ValorMoeda(resultado.custo_por_pessoa), PorPessoaExato, MeioCentavo)
        /\ Perto(ValorMoeda(resultado.custo_por_dia_pessoa), PorDiaPessoaExato,
                 MeioCentavo)

C4_Witness ==
    /\ FezViagem
    /\ Devolveu
    /\ CustosNaoNegativos
    /\ num_viajantes.n > 1
    /\ custo_alimentacao_dia_pessoa.n > 0
    /\ ValorMoeda(resultado.custo_por_dia_pessoa) # PorDiaPessoaExato
    /\ ValorMoeda(resultado.reserva) # ReservaExato

(***************************************************************************)
(* C5 as stated.  The derived amounts in the records the calculators       *)
(* return are the unrounded values of the formulas.                        *)
(***************************************************************************)
C5_Original ==
    /\ (FezCombustivel /\ Devolveu) =>
          /\ ValorNumero(resultado.litros_necessarios) = LitrosExato
          /\ ValorMoeda(resultado.custo_total_combustivel) = CustoCombustivelExato
          /\ ValorMoeda(resultado.custo_por_pessoa_combustivel)
                = CombustivelPorPessoaExato
    /\ (FezViagem /\ Devolveu) =>
          /\ ValorMoeda(resultado.total_acomodacao) = AcomodacaoExato
          /\ ValorMoeda(resultado.total_alimentacao) = AlimentacaoExato
          /\ ValorMoeda(resultado.subtotal) = SubtotalExato
          /\ ValorMoeda(resultado.reserva) = ReservaExato
          /\ ValorMoeda(resultado.custo_total_final) = TotalExato
          /\ ValorMoeda(resultado.custo_por_pessoa) = PorPessoaExato
          /\ ValorMoeda(resultado.custo_por_dia_pessoa) = PorDiaPessoaExato

(***************************************************************************)
(* C5 as amended.  The derived amounts in the records the calculators      *)
(* return are texts in Brazilian notation with exactly two decimals,       *)
(* produced inside the calculator: each is the unrounded value of its      *)
(* formula rounded to the nearest hundredth, and equals it only when that  *)
(* value has no more than two decimals.                                    *)
(***************************************************************************)
C5_Arredondado(texto, valor, exato) ==
    /\ DuasCasas(texto)
    /\ EhInteiro(RMul(valor, Num(100)))
    /\ Perto(valor, exato, MeioCentavo)
    /\ (valor = exato) <=> EhInteiro(RMul(exato, Num(100)))

C5_ArredondaNoCalculo ==
    /\ (FezCombustivel /\ Devolveu) =>
          /\ C5_Arredondado(SubSeq(resultado.litros_necessarios, 1,
                                   Len(resultado.litros_necessarios) - 2),
                            ValorNumero(resultado.litros_necessarios), LitrosExato)
          /\ C5_Arredondado(resultado.custo_total_combustivel,
                            ValorMoeda(resultado.custo_total_combustivel),
                            CustoCombustivelExato)
          /\ C5_Arredondado(resultado.custo_por_pessoa_combustivel,
                            ValorMoeda(resultado.custo_por_pessoa_combustivel),
                            CombustivelPorPessoaExato)
    /\ (FezViagem /\ Devolveu) =>
          /\ C5_Arredondado(resultado.total_acomodacao,
                            ValorMoeda(resultado.total_acomodacao), AcomodacaoExato)
          /\ C5_Arredondado(resultado.total_alimentacao,
                            ValorMoeda(resultado.total_alimentacao), AlimentacaoExato)
          /\ C5_Arredondado(resultado.subtotal,
                            ValorMoeda(resultado.subtotal), SubtotalExato)
          /\ C5_Arredondado(resultado.reserva,
                            ValorMoeda(resultado.reserva), ReservaExato)
          /\ C5_Arredondado(resultado.custo_total_final,
                            ValorMoeda(resultado.custo_total_final), TotalExato)
          /\ C5_Arredondado(resultado.custo_por_pessoa,
                            ValorMoeda(resultado.custo_por_pessoa), PorPessoaExato)
          /\ C5_Arredondado(resultado.custo_por_dia_pessoa,
                            ValorMoeda(resultado.custo_por_dia_pessoa),
                            PorDiaPessoaExato)

C5_Witness ==
    /\ FezViagem
    /\ Devolveu
    /\ custo_acomodacao_noite = Rat(1, 8)
    /\ num_dias = Num(1)
    /\ resultado.total_acomodacao = Texto(<<"0", ",", "1", "2">>)

(***************************************************************************)
(* C6 as stated.  Scenario A: distance 500, economy 12, price 5.99 and 2   *)
(* travelers give litros 41.666..., total cost 249.68(3) and cost per      *)
(* traveler 124.84(2).                                                     *)
(***************************************************************************)
CenarioA ==
    /\ FezCombustivel
    /\ distancia_total = Num(500)
    /\ consumo_km_litro = Num(12)
    /\ preco_combustivel = Rat(599, 100)
    /\ num_viajantes = Num(2)

\* v written with k decimals starts with the digits of inteiro: v is in
\* [inteiro, inteiro + 1) / 10^k.
Trunca(v, k) == (v.n * Pot10(k)) \div v.d

C6_Original ==
    CenarioA =>
        /\ Devolveu
        /\ Trunca(ValorNumero(resultado.litros_necessarios), 3) = 41666
        /\ Trunca(ValorMoeda(resultado.custo_total_combustivel), 2) = 24968
        /\ Trunca(ValorMoeda(resultado.custo_por_pessoa_combustivel), 2) = 12484

(***************************************************************************)
(* C6 as amended.  Scenario A: distance 500, economy 12, price 5.99 and 2  *)
(* travelers give litros "41,67 L" (41.666... rounded), total cost         *)
(* "R$ 249,58" (249.58(3)) and cost per traveler "R$ 124,79" (124.79(1)).  *)
(***************************************************************************)
C6_CenarioA ==
    CenarioA =>
        /\ Devolveu
        /\ resultado.litros_necessarios = <<"4", "1", ",", "6", "7", " ", "L">>
        /\ resultado.custo_total_combustivel = Texto(<<"2", "4", "9", ",", "5", "8">>)
        /\ resultado.custo_por_pessoa_combustivel
              = Texto(<<"1", "2", "4", ",", "7", "9">>)
        /\ resultado.preco_combustivel = Texto(<<"5", ",", "9", "9">>)

C6_Witness == CenarioA /\ Devolveu /\ painel # <<>>

(***************************************************************************)
(* C7.  Scenario B: 7 days, 2 travelers, lodging 300 a night, transport    *)
(* 2500, food 80 a day and person, activities 500 and a reserve of 10%     *)
(* give lodging 2100, food 1120, subtotal 6220, reserve 622, total 6842,   *)
(* cost per traveler 3421 and cost per traveler and day 488.71.            *)
(***************************************************************************)
CenarioB ==
    /\ FezViagem
    /\ num_dias = Num(7)
    /\ num_viajantes = Num(2)
    /\ custo_acomodacao_noite = Num(300)
    /\ custo_transporte_total = Num(2500)
    /\ custo_alimentacao_dia_pessoa = Num(80)
    /\ custo_atividades_total = Num(500)
    /\ percentual_reserva = Num(10)

C9_PainelSoComResultado ==
    botao # "" =>
        /\ painel # <<>> => Devolveu
        /\ Devolveu => painel # <<>>
        /\ resultado = None => (painel = <<>> /\ excecao = "")

C9_Witness ==
    /\ botao # ""
    /\ resultado = None
    /\ painel = <<>>
    /\ excecao = ""

(***************************************************************************)
(* C10.  Every combination of values the widgets of a form can supply      *)
(* passes the validation of the calculator the form calls: in every run a  *)
(* button triggers the calculator returns a result, never None, and the    *)
(* divisors (economy and travelers; travelers and days) are > 0.           *)
(***************************************************************************)
C10_WidgetsPassamValidacao ==
    /\ num_dias.n >= 1 /\ EhInteiro(num_dias)
    /\ num_viajantes.n >= 1 /\ EhInteiro(num_viajantes)
    /\ CustosNaoNegativos
    /\ RLeq(Num(0), percentual_reserva) /\ RLeq(percentual_reserva, Num(100))
    /\ distancia_total.n >= 1 /\ consumo_km_litro.n >= 1
    /\ RLeq(Rat(1, 10), preco_combustivel)
    /\ botao # "" =>
          /\ Devolveu
          /\ excecao = ""
    /\ FezCombustivel => (consumo_km_litro.n > 0 /\ num_viajantes.n > 0)
    /\ FezViagem => (num_viajantes.n > 0 /\ num_dias.n > 0)

C10_Witness ==
    \/ /\ FezViagem
       /\ num_dias = Num(1)
       /\ num_viajantes = Num(1)
       /\ custo_acomodacao_noite = Num(0)
       /\ Devolveu
    \/ /\ FezCombustivel
       /\ distancia_total = Num(1)
       /\ preco_combustivel = Rat(1, 10)
       /\ Devolveu

====
